---- MODULE Spec2Model ----
(***************************************************************************)
(* A model of the EDSP scraper: the batch planner and statistics of        *)
(* src/application/services.py and src/domain/entities.py, the CSV sink of *)
(* src/infrastructure/storage.py, the page and detail tasks of             *)
(* src/infrastructure/browser.py and the orchestration of                  *)
(* src/application/scraper.py.                                             *)
(***************************************************************************)
EXTENDS Integers, Sequences, FiniteSets, TLC

VARIABLES
    call,        \* a pure function under check: its arguments and its result
    stats,       \* SchoolDataProcessor.stats (ProcessingStats)
    totals,      \* BatchProcessor.stats (ProcessingStats)
    storage,     \* CSVStorage: handle, writer, buffer, file content, synced content
    sink,        \* the Sink's caller: position inside write_single_school, calls made
    pc,          \* position of process_all_pages
    batches,     \* the BatchConfig list of the run
    bi,          \* index of the batch being processed (enumerate(batches, 1))
    contexts,    \* rendering sessions open (create_browser_contexts)
    ptask,       \* page tasks of the current batch: page -> links, fetch tasks
    semaphore,   \* free permits of BrowserManager.semaphore
    queue,       \* raw results of the gathered batch not yet processed
    all_schools, \* EDSPScraper.all_schools
    exc,         \* the exception propagating out of process_all_pages, if any
    history,     \* every detail fetch that settled: page, reference, outcome
    log          \* the warnings logged: action and page_num

vars == <<call, stats, totals, storage, sink, pc, batches, bi, contexts,
          ptask, semaphore, queue, all_schools, exc, history, log>>

(***************************************************************************)
(* Bounds of the model.                                                    *)
(***************************************************************************)
MaxTotalPages == 12   \* create_batches is applied to 1..MaxTotalPages pages
MaxBatchSize == 6     \* and to batch sizes 1..MaxBatchSize
MaxRecords == 3       \* outcomes counted by one ProcessingStats
MaxMerged == 6        \* cap of the merged total_processed
MaxSinkCalls == 6     \* calls made on one CSVStorage
MaxPages == 3         \* pages the catalog may turn out to have
BatchSize == 2        \* pages per batch (the run passes batch_size=12)
MaxRuns == 3          \* runs made on one EDSPScraper
MaxAnchors == 3       \* anchors of the results table of one page
NumCallers == 2       \* concurrent callers of the CSVStorage
NumContexts == 1      \* rendering sessions per batch (the run opens 4)
MaxLines == 3         \* lines of an artifact given to verify_file_integrity
MaxTextLen == 3       \* characters of a text given to from_text
MaxOutcome == 1       \* records of each outcome in one batch's stats
MaxTarget == 4        \* target pages 1..MaxTarget given to the navigator

(***************************************************************************)
(* Program constants.                                                      *)
(***************************************************************************)
MaxConcurrent == 2    \* ScrapingConfig.max_concurrent
RetryAttempts == 3    \* stop_after_attempt(3)

Min(a, b) == IF a < b THEN a ELSE b

(***************************************************************************)
(* ProcessingStats (entities.py).                                          *)
(***************************************************************************)
ZeroStats ==
    [total_processed |-> 0, successful |-> 0, errors |-> 0, skipped |-> 0,
     pages_processed |-> 0, total_pages |-> 0, total_institutions |-> 0]

update_success(s) ==
    [s EXCEPT !.total_processed = @ + 1, !.successful = @ + 1]

update_error_uncounted(s) ==
    [s EXCEPT !.errors = @ + 1]

update_error(s) ==
    [s EXCEPT !.total_processed = @ + 1, !.errors = @ + 1]

update_skipped(s) ==
    [s EXCEPT !.total_processed = @ + 1, !.skipped = @ + 1]

\* the fields merge_stats adds
MergedFields ==
    {"total_processed", "successful", "errors", "skipped", "pages_processed"}

merge_stats_overwrites(t, batch_stats) ==
    [f \in DOMAIN t |-> IF f \in MergedFields /\ batch_stats[f] > 0
                         THEN batch_stats[f] ELSE t[f]]

\* BatchProcessor.merge_stats: field-wise addition of five fields
merge_stats(t, batch_stats) ==
    [t EXCEPT !.total_processed = @ + batch_stats.total_processed,
              !.successful = @ + batch_stats.successful,
              !.errors = @ + batch_stats.errors,
              !.skipped = @ + batch_stats.skipped,
              !.pages_processed = @ + batch_stats.pages_processed]

(***************************************************************************)
(* BatchProcessor.create_batches (services.py).                            *)
(***************************************************************************)
RECURSIVE Digits(_)
Digits(n) == IF n < 10 THEN <<n>> ELSE Append(Digits(n \div 10), n % 10)

Format03d_unpadded(n) == Digits(n)

\* f"{n:03d}": the decimal digits of n, zero-padded on the left to width 3
Format03d(n) ==
    LET d == Digits(n)
    IN  IF Len(d) >= 3 THEN d
        ELSE [i \in 1..(3 - Len(d)) |-> 0] \o d

BatchEndPageUnclamped(start_page, batch_size, total_pages) ==
    start_page + batch_size - 1

BatchEndPage(start_page, batch_size, total_pages) ==
    Min(start_page + batch_size - 1, total_pages)

BatchConfig(start_page, end_page, batch_number) ==
    [start_page |-> start_page, end_page |-> end_page,
     batch_name |-> Format03d(batch_number)]

\* the loop "for start_page in range(1, total_pages + 1, batch_size)"
RECURSIVE create_batches_from(_, _, _, _, _)
create_batches_from(start_page, total_pages, batch_size, batch_number, acc) ==
    IF start_page >= total_pages + 1
    THEN acc
    ELSE create_batches_from(
             start_page + batch_size, total_pages, batch_size, batch_number + 1,
             Append(acc, BatchConfig(start_page,
                                     BatchEndPage(start_page, batch_size, total_pages),
                                     batch_number)))

create_batches(total_pages, batch_size) ==
    create_batches_from(1, total_pages, batch_size, 1, <<>>)

PagesOf(b) == b.start_page .. b.end_page

(***************************************************************************)
(* CSVStorage (storage.py).  A row is what SchoolData.to_dict gives the    *)
(* DictWriter; the header row holds the field names.  buffer is the text   *)
(* layer's pending output, file what a reader of the path sees, disk what  *)
(* os.fsync has forced to stable storage.                                  *)
(***************************************************************************)
Refs == {"a", "b"}

HeaderRow ==
    [detail_url |-> "detail_url", status |-> "status",
     error_message |-> "error_message"]

\* SchoolData.to_dict: status.value, and error_message or ""
to_dict(school) ==
    [detail_url |-> school.detail_url,
     status |-> school.status,
     error_message |-> IF school.error_message = "None" THEN ""
                       ELSE school.error_message]

NewStorage ==
    [csv_file |-> "none", csv_writer |-> FALSE, filename |-> FALSE,
     buffer |-> <<>>, file |-> <<>>, disk |-> <<>>, crashed |-> "no"]

Ok(s) == [s |-> s, exc |-> "none"]
Raise(s, e) == [s |-> s, exc |-> e]

initialize_csv_no_header(s) ==
    [s EXCEPT !.filename = TRUE, !.csv_file = "open", !.csv_writer = TRUE,
              !.buffer = <<>>, !.file = <<>>, !.disk = <<>>]

\* open(filename, "w") and writeheader(): the header goes to the buffer
initialize_csv(s) ==
    [s EXCEPT !.filename = TRUE, !.csv_file = "open", !.csv_writer = TRUE,
              !.buffer = <<HeaderRow>>, !.file = <<>>, !.disk = <<>>]

file_flush_lost(s) ==
    IF s.csv_file = "closed" THEN Raise(s, "ValueError") ELSE Ok(s)

\* self._csv_file.flush(): a closed file raises ValueError
file_flush(s) ==
    IF s.csv_file = "closed"
    THEN Raise(s, "ValueError")
    ELSE Ok([s EXCEPT !.file = @ \o s.buffer, !.buffer = <<>>])

\* os.fsync(self._csv_file.fileno())
fsync(s) == [s EXCEPT !.disk = s.file]

write_school_data_unchecked(s, row) == Ok([s EXCEPT !.buffer = Append(@, row)])

\* write_school_data: the writer check, then writerow on the file object
write_school_data(s, row) ==
    IF ~s.csv_writer
    THEN Raise(s, "RuntimeError")
    ELSE IF s.csv_file = "closed"
         THEN Raise(s, "ValueError")
         ELSE Ok([s EXCEPT !.buffer = Append(@, row)])

\* the part of write_single_school after write_school_data
flush_if_file(s) ==
    IF s.csv_file # "none" THEN file_flush(s) ELSE Ok(s)

write_single_school(s, row) ==
    LET w == write_school_data(s, row)
    IN  IF w.exc # "none" THEN w ELSE flush_if_file(w.s)

close_skipped(s) == Ok(s)

\* close: "if self._csv_file" is true of a closed file object too
close(s) ==
    IF s.csv_file # "none"
    THEN LET f == file_flush(s)
         IN  IF f.exc # "none" THEN f
             ELSE Ok([fsync(f.s) EXCEPT !.csv_file = "closed"])
    ELSE Ok(s)

force_save(s) ==
    IF s.csv_file # "none"
    THEN LET f == file_flush(s)
         IN  IF f.exc # "none" THEN f ELSE Ok(fsync(f.s))
    ELSE Ok(s)

\* signal_handler (main.py): force_save() then close() inside one try; an
\* exception of either is caught and logged
signal_handler_no_close(s) == force_save(s)

signal_handler(s) ==
    LET f == force_save(s)
    IN  IF f.exc # "none" THEN f ELSE close(f.s)

\* the list csv.reader yields for a row
Cells(row) == <<row.detail_url, row.status, row.error_message>>

\* an artifact as verify_file_integrity reads it: whether the path exists,
\* whether its bytes decode as UTF-8, and the list csv.reader yields for each
\* line (an empty line gives [], a line of blanks one cell of blanks)
BlankLines == {<<>>, <<" ">>}

integrity_needs_rows(a) ==
    a.exists /\ a.decodable /\ Len(a.lines) >= 2 /\ Head(a.lines) # <<>>

\* verify_file_integrity on such an artifact: the path exists, read() does
\* not raise, content.strip() is not empty, and next(reader) is not empty
integrity(a) ==
    IF ~a.exists THEN FALSE
    ELSE IF ~a.decodable THEN FALSE
    ELSE IF \A i \in 1..Len(a.lines) : a.lines[i] \in BlankLines THEN FALSE
    ELSE Head(a.lines) # <<>>

\* verify_file_integrity of the Sink's own file
verify_file_integrity(s) ==
    integrity([exists |-> s.filename, decodable |-> TRUE,
               lines |-> [i \in 1..Len(s.file) |-> Cells(s.file[i])]])

\* get_partial_data_count: skip the first row, count the rest
get_partial_data_count(s) ==
    IF ~s.filename THEN 0
    ELSE IF s.file = <<>> THEN 0 ELSE Len(Tail(s.file))

DataRows(s) == IF s.file = <<>> THEN <<>> ELSE Tail(s.file)

\* the rows (or records) whose field has the value
RowsWith(rows, field, value) ==
    Cardinality({i \in 1..Len(rows) : rows[i][field] = value})

(***************************************************************************)
(* Values of the variables a specification does not use.                   *)
(***************************************************************************)
runVars == <<pc, batches, bi, contexts, ptask, semaphore, queue,
             all_schools, exc, history, log>>
sinkVars == <<storage, sink>>
statVars == <<stats, totals>>

NoCall == [fn |-> "none"]

IdleSink ==
    [wpc |-> "idle", appended |-> 0, calls |-> 0, closes |-> 0,
     lastOp |-> "none", lastExc |-> "none"]

(***************************************************************************)
(* create_batches applied to every total_pages and batch_size in bounds.   *)
(***************************************************************************)
CallCreateBatches ==
    /\ call.fn = "create_batches"
    /\ ~call.done
    /\ call' = [call EXCEPT !.ret = create_batches(call.total_pages, call.batch_size),
                            !.done = TRUE]
    /\ UNCHANGED <<statVars, sinkVars, runVars>>

(***************************************************************************)
(* merge_stats applied to three batches' stats in every order.  A batch's  *)
(* stats count its outcomes and its pages and carry the discovered totals. *)
(***************************************************************************)
BatchStats ==
    {[total_processed |-> s + e + k, successful |-> s, errors |-> e,
      skipped |-> k, pages_processed |-> n, total_pages |-> MaxPages,
      total_institutions |-> 0] :
        s \in 0..MaxOutcome, e \in 0..MaxOutcome, k \in 0..MaxOutcome,
        n \in {1, BatchSize}}

\* merge_stats called for x, then y, then z, on zeroed totals
merge_in_order(x, y, z) ==
    merge_stats(merge_stats(merge_stats(ZeroStats, x), y), z)

CallMergeStats ==
    /\ call.fn = "merge_stats"
    /\ ~call.done
    /\ LET a == call.a
           b == call.b
           c == call.c
       IN  call' = [call EXCEPT
                      !.done = TRUE,
                      !.ret = {merge_in_order(a, b, c), merge_in_order(a, c, b),
                               merge_in_order(b, a, c), merge_in_order(b, c, a),
                               merge_in_order(c, a, b), merge_in_order(c, b, a)},
                      !.left = merge_stats(merge_stats(a, b), c),
                      !.right = merge_stats(a, merge_stats(b, c)),
                      !.ab = merge_stats(a, b),
                      !.ba = merge_stats(b, a)]
    /\ UNCHANGED <<statVars, sinkVars, runVars>>

(***************************************************************************)
(* SchoolClassification.from_text (entities.py).  A text is None or a      *)
(* sequence of characters; the characters are the letters of the two known *)
(* values in both cases, and the blank.                                    *)
(***************************************************************************)
Chars == {"p", "e", "i", "P", "E", "I", " "}

PEI == <<"P", "E", "I">>
EE == <<"E", "E">>
UNKNOWN == <<"U", "N", "K", "N", "O", "W", "N">>

\* str.upper, character by character
upper_char(c) ==
    CASE c = "p" -> "P"
      [] c = "e" -> "E"
      [] c = "i" -> "I"
      [] OTHER -> c

upper(text) == [i \in 1..Len(text) |-> upper_char(text[i])]

\* str.strip: the blanks at both ends are removed
RECURSIVE lstrip(_)
lstrip(text) ==
    IF text # <<>> /\ Head(text) = " " THEN lstrip(Tail(text)) ELSE text

RECURSIVE rstrip(_)
rstrip(text) ==
    IF text # <<>> /\ text[Len(text)] = " "
    THEN rstrip(SubSeq(text, 1, Len(text) - 1)) ELSE text

strip(text) == rstrip(lstrip(text))

\* from_text: the value of the classification returned
from_text(text) ==
    IF text.none \/ text.chars = <<>>
    THEN UNKNOWN
    ELSE LET t == upper(strip(text.chars))
         IN  IF t = PEI THEN PEI
             ELSE IF t = EE THEN EE
             ELSE t

Texts ==
    {[none |-> TRUE, chars |-> <<>>]}
    \cup {[none |-> FALSE, chars |-> c] :
            c \in UNION {[1..n -> Chars] : n \in 0..MaxTextLen}}

CallFromText ==
    /\ call.fn = "from_text"
    /\ ~call.done
    /\ call' = [call EXCEPT !.ret = from_text(call.text), !.done = TRUE]
    /\ UNCHANGED <<statVars, sinkVars, runVars>>

(***************************************************************************)
(* verify_file_integrity applied to every artifact in bounds.              *)
(***************************************************************************)
LineKinds ==
    BlankLines \cup {Cells(HeaderRow), <<"a", "SUCCESS", "">>}

Artifacts ==
    {[exists |-> FALSE, decodable |-> FALSE, lines |-> <<>>],
     [exists |-> TRUE, decodable |-> FALSE, lines |-> <<>>]}
    \cup {[exists |-> TRUE, decodable |-> TRUE, lines |-> l] :
            l \in UNION {[1..n -> LineKinds] : n \in 0..MaxLines}}

CallVerify ==
    /\ call.fn = "verify_file_integrity"
    /\ ~call.done
    /\ call' = [call EXCEPT !.ret = integrity(call.artifact), !.done = TRUE]
    /\ UNCHANGED <<statVars, sinkVars, runVars>>

(***************************************************************************)
(* ProcessingStats and merge_stats under every sequence of updates.        *)
(***************************************************************************)
StatsUpdateSuccess ==
    /\ stats.total_processed < MaxRecords
    /\ stats' = update_success(stats)
    /\ UNCHANGED <<call, totals, sinkVars, runVars>>

StatsUpdateError ==
    /\ stats.total_processed < MaxRecords
    /\ stats' = update_error(stats)
    /\ UNCHANGED <<call, totals, sinkVars, runVars>>

StatsUpdateSkipped ==
    /\ stats.total_processed < MaxRecords
    /\ stats' = update_skipped(stats)
    /\ UNCHANGED <<call, totals, sinkVars, runVars>>

\* merge_stats(batch_stats), with the stats object process_batch returns
StatsMerge ==
    /\ totals.total_processed + stats.total_processed <= MaxMerged
    /\ totals' = merge_stats(totals, stats)
    /\ UNCHANGED <<call, stats, sinkVars, runVars>>

\* SchoolDataProcessor.reset_processing_state
StatsReset ==
    /\ stats # ZeroStats
    /\ stats' = ZeroStats
    /\ UNCHANGED <<call, totals, sinkVars, runVars>>

(***************************************************************************)
(* CSVStorage under every sequence of calls, with the process killed or    *)
(* the machine lost at any point.  write_single_school takes two steps:    *)
(* write_school_data, then the flush.                                      *)
(***************************************************************************)
SinkSchools ==
    {[detail_url |-> u, status |-> "SUCCESS", error_message |-> "None"] : u \in Refs}
    \cup {[detail_url |-> "a", status |-> "ERROR", error_message |-> "timeout"]}

SinkCallable ==
    /\ storage.crashed = "no"
    /\ sink.wpc = "idle"
    /\ sink.calls < MaxSinkCalls

SinkInitialize ==
    /\ SinkCallable
    /\ storage.csv_file = "none"
    /\ storage' = initialize_csv(storage)
    /\ sink' = [sink EXCEPT !.calls = @ + 1, !.lastOp = "initialize_csv",
                            !.lastExc = "none"]
    /\ UNCHANGED <<call, statVars, runVars>>

SinkWriteBegin ==
    /\ SinkCallable
    /\ \E school \in SinkSchools :
         LET r == write_school_data(storage, to_dict(school))
         IN  /\ storage' = r.s
             /\ sink' = IF r.exc = "none"
                        THEN [sink EXCEPT !.calls = @ + 1, !.wpc = "written"]
                        ELSE [sink EXCEPT !.calls = @ + 1,
                                          !.lastOp = "write_single_school",
                                          !.lastExc = r.exc]
    /\ UNCHANGED <<call, statVars, runVars>>

SinkWriteEnd ==
    /\ storage.crashed = "no"
    /\ sink.wpc = "written"
    /\ LET r == flush_if_file(storage)
       IN  /\ storage' = r.s
           /\ sink' = [sink EXCEPT !.wpc = "idle",
                                   !.lastOp = "write_single_school",
                                   !.lastExc = r.exc,
                                   !.appended = IF r.exc = "none" THEN @ + 1 ELSE @]
    /\ UNCHANGED <<call, statVars, runVars>>

SinkClose ==
    /\ SinkCallable
    /\ LET r == close(storage)
       IN  /\ storage' = r.s
           /\ sink' = [sink EXCEPT !.calls = @ + 1,
                                   !.closes = IF storage.csv_file # "none"
                                              THEN @ + 1 ELSE @,
                                   !.lastOp = "close", !.lastExc = r.exc]
    /\ UNCHANGED <<call, statVars, runVars>>

SinkForceSave ==
    /\ SinkCallable
    /\ LET r == force_save(storage)
       IN  /\ storage' = r.s
           /\ sink' = [sink EXCEPT !.calls = @ + 1,
                                   !.lastOp = "force_save", !.lastExc = r.exc]
    /\ UNCHANGED <<call, statVars, runVars>>

\* SIGINT between any two steps: signal_handler, then sys.exit(0)
SinkInterrupt ==
    /\ storage.crashed = "no"
    /\ LET r == signal_handler(storage)
       IN  /\ storage' = [r.s EXCEPT !.crashed = "exit"]
           /\ sink' = [sink EXCEPT !.lastOp = "signal_handler", !.lastExc = r.exc]
    /\ UNCHANGED <<call, statVars, runVars>>

\* the process is killed: what the text layer still buffered is lost
SinkKill ==
    /\ storage.crashed = "no"
    /\ storage.csv_file # "none"
    /\ storage' = [storage EXCEPT !.crashed = "process", !.buffer = <<>>]
    /\ UNCHANGED <<call, statVars, sink, runVars>>

\* the machine is lost: what was not forced to stable storage may be lost
SinkPowerLoss ==
    /\ storage.crashed = "no"
    /\ storage.csv_file # "none"
    /\ \E k \in Len(storage.disk)..Len(storage.file) :
         storage' = [storage EXCEPT !.crashed = "system", !.buffer = <<>>,
                                    !.file = SubSeq(storage.file, 1, k)]
    /\ UNCHANGED <<call, statVars, sink, runVars>>

(***************************************************************************)
(* The detail fetch (browser.py): extract_school_details under its retry   *)
(* wrapper, given what each attempt does.                                  *)
(***************************************************************************)
AttemptOutcomes == [1..RetryAttempts -> {"ok", "raise"}]

\* tenacity: stop at the first attempt that returns, reraise after the last
RECURSIVE retry_from(_, _)
retry_from(outcomes, attempt) ==
    IF outcomes[attempt] = "ok"
    THEN [result |-> "ok", attempts |-> attempt]
    ELSE IF attempt >= RetryAttempts
         THEN [result |-> "fail", attempts |-> attempt]
         ELSE retry_from(outcomes, attempt + 1)

extract_school_details(outcomes) == retry_from(outcomes, 1)

\* the dict extract_school_details returns for a reference
RawData(link) == [name |-> "school", classification |-> "PEI", detail_url |-> link]

\* the link lists extract_school_links may give for a page (deduplicated)
LinkLists == {<<>>, <<"a">>, <<"a", "b">>}

(***************************************************************************)
(* The same fetch attempt by attempt: the retry wrapper calls the function *)
(* body, and after an attempt that raised an Exception either stops        *)
(* (stop_after_attempt) or sleeps and calls it again.  call.trace holds    *)
(* what each finished attempt did.                                         *)
(***************************************************************************)
\* retry_if_exception_type((Exception,)): what an attempt may raise and the
\* wrapper retries; CancelledError is not an Exception
Retryable == {"TimeoutError", "Error", "AttributeError"}

stop_after_attempt_late(attempt_number) == attempt_number >= RetryAttempts + 1

stop_after_attempt(attempt_number) == attempt_number >= RetryAttempts

FetchCall(detail_url) ==
    [fn |-> "extract_school_details", detail_url |-> detail_url,
     st |-> "attempt", attempt_number |-> 1, trace |-> <<>>,
     ret |-> <<>>, exc |-> "none"]

RetryAttempting == call.fn = "extract_school_details" /\ call.st = "attempt"

\* the body returns the dict
AttemptReturns ==
    /\ RetryAttempting
    /\ call' = [call EXCEPT !.trace = Append(@, "ok"), !.st = "returned",
                            !.ret = RawData(call.detail_url)]
    /\ UNCHANGED <<statVars, sinkVars, runVars>>

\* the body raises an Exception: RetryError after the last attempt, else
\* before_sleep and the wait
AttemptRaises ==
    /\ RetryAttempting
    /\ \E e \in Retryable :
         call' = IF stop_after_attempt(call.attempt_number)
                 THEN [call EXCEPT !.trace = Append(@, e), !.st = "raised",
                                   !.exc = "RetryError"]
                 ELSE [call EXCEPT !.trace = Append(@, e), !.st = "sleep"]
    /\ UNCHANGED <<statVars, sinkVars, runVars>>

\* the task is cancelled inside the body: not retried
AttemptCancelled ==
    /\ RetryAttempting
    /\ call' = [call EXCEPT !.trace = Append(@, "CancelledError"),
                            !.st = "raised", !.exc = "CancelledError"]
    /\ UNCHANGED <<statVars, sinkVars, runVars>>

\* the wait is over: the next attempt
AttemptAgain ==
    /\ call.fn = "extract_school_details" /\ call.st = "sleep"
    /\ call' = [call EXCEPT !.attempt_number = @ + 1, !.st = "attempt"]
    /\ UNCHANGED <<statVars, sinkVars, runVars>>

(***************************************************************************)
(* process_page_parallel (browser.py): what the page task returns once     *)
(* every fetch task has settled: the dicts, in task order; an exception    *)
(* among the gathered results is logged and left out.                      *)
(***************************************************************************)
page_results_none_on_failure(links, fetch) ==
    IF \E k \in 1..Len(fetch) : fetch[k] = "fail" THEN <<>>
    ELSE [k \in 1..Len(links) |-> RawData(links[k])]

RECURSIVE page_results(_, _)
page_results(links, fetch) ==
    IF links = <<>> THEN <<>>
    ELSE (IF Head(fetch) = "ok" THEN <<RawData(Head(links))>> ELSE <<>>)
         \o page_results(Tail(links), Tail(fetch))

Settled(f) == f \in {"ok", "fail"}

\* asyncio.Semaphore(config.max_concurrent): no permit is left
locked_never(sem) == FALSE

locked(sem) == sem <= 0

NewPageTask == [st |-> "created", links |-> <<>>, fetch |-> <<>>]

\* the page and fetch tasks take steps while the event loop runs them: inside
\* the batch's gather, and while asyncio.run waits for the cancelled tasks
Gathering == pc \in {"gather", "cancelling"}

(***************************************************************************)
(* process_school_data (scraper.py): the entity and the updated stats.     *)
(***************************************************************************)
process_school_data(raw_data, st) ==
    IF {"classification", "name", "detail_url"} \subseteq DOMAIN raw_data
    THEN [school |-> [detail_url |-> raw_data.detail_url, status |-> "SUCCESS",
                      error_message |-> "None"],
          stats |-> update_success(st)]
    ELSE [school |-> [detail_url |-> IF "detail_url" \in DOMAIN raw_data
                                     THEN raw_data.detail_url ELSE "",
                      status |-> "ERROR", error_message |-> "KeyError"],
          stats |-> update_error(st)]

\* process_batch: pages_to_process of a batch
pages_to_process(batch_config, st) ==
    batch_config.start_page .. Min(batch_config.end_page, st.total_pages)

\* process_batch: contexts[i % len(contexts)] for the i-th page of the batch
context_of(batch_config, page_num, n) == (page_num - batch_config.start_page) % n

RECURSIVE gather_results(_, _, _)
gather_results(tasks, page, last) ==
    IF page > last THEN <<>>
    ELSE page_results(tasks[page].links, tasks[page].fetch)
         \o gather_results(tasks, page + 1, last)

(***************************************************************************)
(* process_all_pages (scraper.py), one run of it.                          *)
(***************************************************************************)
InstitutionCounts == {0, 150}

\* reset_processing_state and initialize_csv
Begin ==
    /\ pc = "start"
    /\ stats' = ZeroStats
    /\ storage' = initialize_csv(storage)
    /\ pc' = "discover"
    /\ UNCHANGED <<call, totals, sink, batches, bi, contexts, ptask, semaphore,
                   queue, all_schools, exc, history, log>>

\* get_total_pages, get_total_institutions, create_batches(total_pages, 12)
Discover ==
    /\ pc = "discover"
    /\ \E total_pages \in 1..MaxPages, total_institutions \in InstitutionCounts :
         /\ stats' = [stats EXCEPT !.total_pages = total_pages,
                                   !.total_institutions = total_institutions]
         /\ batches' = create_batches(total_pages, BatchSize)
    /\ bi' = 1
    /\ pc' = "batch"
    /\ UNCHANGED <<call, totals, sinkVars, contexts, ptask, semaphore, queue,
                   all_schools, exc, history, log>>

\* the browser launch or page.goto of get_total_pages raises
DiscoverFails ==
    /\ pc = "discover"
    /\ exc' = "Exception"
    /\ pc' = "except"
    /\ UNCHANGED <<call, statVars, sinkVars, batches, bi, contexts, ptask,
                   semaphore, queue, all_schools, history, log>>

\* process_batch: create_browser_contexts(4), one page task per page
OpenContexts ==
    /\ pc = "batch"
    /\ contexts' = NumContexts
    /\ ptask' = [p \in pages_to_process(batches[bi], stats) |-> NewPageTask]
    /\ pc' = "gather"
    /\ UNCHANGED <<call, statVars, sinkVars, batches, bi, semaphore, queue,
                   all_schools, exc, history, log>>

\* the browser launch of create_browser_contexts raises
OpenContextsFails ==
    /\ pc = "batch"
    /\ exc' = "Exception"
    /\ pc' = "except"
    /\ UNCHANGED <<call, statVars, sinkVars, batches, bi, contexts, ptask,
                   semaphore, queue, all_schools, history, log>>

\* process_page_parallel up to its gather: the links found become fetch tasks
PageStart(p) ==
    /\ Gathering
    /\ ptask[p].st = "created"
    /\ \E links \in LinkLists :
         ptask' = [ptask EXCEPT ![p] =
                     IF links = <<>>
                     THEN [@ EXCEPT !.st = "done"]
                     ELSE [st |-> "fetching", links |-> links,
                           fetch |-> [k \in 1..Len(links) |-> "waiting"]]]
    /\ UNCHANGED <<call, statVars, sinkVars, pc, batches, bi, contexts,
                   semaphore, queue, all_schools, exc, history, log>>

\* process_page_parallel returns []: goto or link extraction failed
PageFails(p) ==
    /\ Gathering
    /\ ptask[p].st = "created"
    /\ ptask' = [ptask EXCEPT ![p].st = "done"]
    /\ UNCHANGED <<call, statVars, sinkVars, pc, batches, bi, contexts,
                   semaphore, queue, all_schools, exc, history, log>>

\* "not await navigate_to_page_robust(page, page_num)": the warning is logged
\* and the page task returns []
navigation_continues(task) ==
    [st |-> "fetching", links |-> <<"a">>, fetch |-> <<"waiting">>]

navigation_failed(task) == [task EXCEPT !.st = "done"]

PageNavFails(p) ==
    /\ Gathering
    /\ ptask[p].st = "created"
    /\ p > 1
    /\ ptask' = [ptask EXCEPT ![p] = navigation_failed(@)]
    /\ log' = log \cup {[action |-> "navigation_failed", page_num |-> p]}
    /\ UNCHANGED <<call, statVars, sinkVars, pc, batches, bi, contexts,
                   semaphore, queue, all_schools, exc, history>>

\* process_school_parallel: "async with self.semaphore" entered
FetchStart(p, k) ==
    /\ Gathering
    /\ ptask[p].st = "fetching"
    /\ ptask[p].fetch[k] = "waiting"
    /\ ~locked(semaphore)
    /\ semaphore' = semaphore - 1
    /\ ptask' = [ptask EXCEPT ![p].fetch[k] = "running"]
    /\ UNCHANGED <<call, statVars, sinkVars, pc, batches, bi, contexts, queue,
                   all_schools, exc, history, log>>

\* leaving "async with self.semaphore", by a return or by an exception
released_on_success(sem, result) == IF result = "ok" THEN sem + 1 ELSE sem

released(sem, result) == sem + 1

\* extract_school_details returns or reraises; the permit is released
FetchFinish(p, k) ==
    /\ Gathering
    /\ ptask[p].st = "fetching"
    /\ ptask[p].fetch[k] = "running"
    /\ \E outcomes \in AttemptOutcomes :
         LET r == extract_school_details(outcomes)
         IN  /\ ptask' = [ptask EXCEPT ![p].fetch[k] = r.result]
             /\ history' = history \cup
                    {[page |-> p, ref |-> ptask[p].links[k], result |-> r.result]}
             /\ semaphore' = released(semaphore, r.result)
    /\ UNCHANGED <<call, statVars, sinkVars, pc, batches, bi, contexts, queue,
                   all_schools, exc, log>>

\* "page = await context.new_page()" raises inside the async with: the fetch
\* has failed before any attempt, and the permit is released
FetchOpenFails(p, k) ==
    /\ Gathering
    /\ ptask[p].st = "fetching"
    /\ ptask[p].fetch[k] = "running"
    /\ ptask' = [ptask EXCEPT ![p].fetch[k] = "fail"]
    /\ history' = history \cup
           {[page |-> p, ref |-> ptask[p].links[k], result |-> "fail"]}
    /\ semaphore' = released(semaphore, "fail")
    /\ UNCHANGED <<call, statVars, sinkVars, pc, batches, bi, contexts, queue,
                   all_schools, exc, log>>

\* the page's gather(return_exceptions=True) returns: every fetch has settled
PageSettle(p) ==
    /\ Gathering
    /\ ptask[p].st = "fetching"
    /\ \A k \in 1..Len(ptask[p].fetch) : Settled(ptask[p].fetch[k])
    /\ ptask' = [ptask EXCEPT ![p].st = "done"]
    /\ UNCHANGED <<call, statVars, sinkVars, pc, batches, bi, contexts,
                   semaphore, queue, all_schools, exc, history, log>>

\* process_batch: gather(*all_tasks) returns the page results in page order
GatherDone ==
    /\ pc = "gather"
    /\ \A p \in DOMAIN ptask : ptask[p].st = "done"
    /\ queue' = gather_results(ptask, batches[bi].start_page,
                               Min(batches[bi].end_page, stats.total_pages))
    /\ ptask' = <<>>
    /\ pc' = "results"
    /\ UNCHANGED <<call, statVars, sinkVars, batches, bi, contexts, semaphore,
                   all_schools, exc, history, log>>

\* the result loop: process_school_data, the appends, write_single_school
ProcessResult ==
    /\ pc = "results"
    /\ queue # <<>>
    /\ LET r == process_school_data(Head(queue), stats)
           w == write_single_school(storage, to_dict(r.school))
       IN  /\ stats' = r.stats
           /\ all_schools' = Append(all_schools, r.school)
           /\ storage' = w.s
           /\ IF w.exc = "none"
              THEN /\ sink' = [sink EXCEPT !.appended = @ + 1]
                   /\ queue' = Tail(queue)
                   /\ UNCHANGED <<pc, exc>>
              ELSE /\ exc' = w.exc
                   /\ pc' = "except"
                   /\ UNCHANGED <<sink, queue>>
    /\ UNCHANGED <<call, totals, batches, bi, contexts, ptask, semaphore, history, log>>

\* the same, with the file system failing the write (OSError): the row is
\* either still in the buffer or lost
ProcessResultFails ==
    /\ pc = "results"
    /\ queue # <<>>
    /\ LET r == process_school_data(Head(queue), stats)
       IN  /\ stats' = r.stats
           /\ all_schools' = Append(all_schools, r.school)
           /\ \E kept \in BOOLEAN :
                storage' = IF kept
                           THEN [storage EXCEPT !.buffer = Append(@, to_dict(r.school))]
                           ELSE storage
    /\ exc' = "OSError"
    /\ pc' = "except"
    /\ UNCHANGED <<call, totals, sink, batches, bi, contexts, ptask, semaphore,
                   queue, history, log>>

\* process_all_pages: "if i < len(batches)" before the pause
more_batches_never(i, n) == FALSE

more_batches(i, n) == i < n

\* after the loop: pages_processed += len(pages_to_process)
ClosePages ==
    /\ pc = "results"
    /\ queue = <<>>
    /\ stats' = [stats EXCEPT !.pages_processed =
                    @ + Cardinality(pages_to_process(batches[bi], stats))]
    /\ pc' = "closing"
    /\ UNCHANGED <<call, totals, sinkVars, batches, bi, contexts, ptask,
                   semaphore, queue, all_schools, exc, history, log>>

\* the contexts are closed, process_batch returns self.school_processor.stats,
\* merge_stats adds it to the totals
ReturnBatch ==
    /\ pc = "closing"
    /\ contexts' = 0
    /\ totals' = merge_stats(totals, stats)
    /\ pc' = IF more_batches(bi, Len(batches)) THEN "pause" ELSE "finish"
    /\ UNCHANGED <<call, stats, sinkVars, batches, bi, ptask, semaphore, queue,
                   all_schools, exc, history, log>>

\* asyncio.sleep(5), then the next batch
Pause ==
    /\ pc = "pause"
    /\ bi' = bi + 1
    /\ pc' = "batch"
    /\ UNCHANGED <<call, statVars, sinkVars, batches, contexts, ptask,
                   semaphore, queue, all_schools, exc, history, log>>

\* return self.batch_processor.stats; finally: storage.close()
Finish ==
    /\ pc = "finish"
    /\ storage' = close(storage).s
    /\ pc' = "done"
    /\ UNCHANGED <<call, statVars, sink, batches, bi, contexts, ptask,
                   semaphore, queue, all_schools, exc, history, log>>

\* except Exception: force_save(), raise; finally: close(); both guarded
HandleFailureSwallowed ==
    /\ pc = "except"
    /\ storage' = close(force_save(storage).s).s
    /\ pc' = "done"
    /\ UNCHANGED <<call, statVars, sink, batches, bi, contexts, ptask,
                   semaphore, queue, all_schools, exc, history, log>>

HandleFailure ==
    /\ pc = "except"
    /\ storage' = close(force_save(storage).s).s
    /\ pc' = "raised"
    /\ UNCHANGED <<call, statVars, sink, batches, bi, contexts, ptask,
                   semaphore, queue, all_schools, exc, history, log>>

(***************************************************************************)
(* process_sample (scraper.py), one call of it.  call.pages is the set of  *)
(* page numbers handed to process_page_parallel.                           *)
(***************************************************************************)
SampleCall(start_page, end_page) ==
    [fn |-> "process_sample", start_page |-> start_page, end_page |-> end_page,
     st |-> "called", pages |-> {}, batch_schools |-> <<>>, ret |-> ZeroStats]

\* reset_processing_state and initialize_csv
SampleBegin ==
    /\ call.fn = "process_sample" /\ call.st = "called"
    /\ stats' = ZeroStats
    /\ storage' = initialize_csv(storage)
    /\ call' = [call EXCEPT !.st = "discover"]
    /\ UNCHANGED <<totals, sink, runVars>>

\* get_total_pages and get_total_institutions
SampleDiscover ==
    /\ call.fn = "process_sample" /\ call.st = "discover"
    /\ \E total_pages \in 1..MaxPages :
         stats' = [stats EXCEPT !.total_pages = total_pages]
    /\ call' = [call EXCEPT !.st = "page"]
    /\ UNCHANGED <<totals, sinkVars, runVars>>

RECURSIVE sample_schools(_, _)
sample_schools(raw, st) ==
    IF raw = <<>> THEN [schools |-> <<>>, stats |-> st]
    ELSE LET r == process_school_data(Head(raw), st)
             rest == sample_schools(Tail(raw), r.stats)
         IN  [schools |-> <<r.school>> \o rest.schools, stats |-> rest.stats]

RECURSIVE write_schools(_, _)
write_schools(s, schools) ==
    IF schools = <<>> THEN s
    ELSE write_schools(write_single_school(s, to_dict(Head(schools))).s,
                       Tail(schools))

\* "page_num = 1": process_page_parallel(1, contexts[0]) and the loop that
\* processes and writes each of its results
SamplePage ==
    /\ call.fn = "process_sample" /\ call.st = "page"
    /\ \E links \in LinkLists :
         \E fetch \in [1..Len(links) -> {"ok", "fail"}] :
           LET r == sample_schools(page_results(links, fetch), stats)
           IN  /\ stats' = r.stats
               /\ all_schools' = all_schools \o r.schools
               /\ storage' = write_schools(storage, r.schools)
               /\ call' = [call EXCEPT !.st = "stats", !.pages = {1},
                                       !.batch_schools = r.schools]
    /\ UNCHANGED <<totals, sink, pc, batches, bi, contexts, ptask, semaphore,
                   queue, exc, history, log>>

\* sample_stats = ProcessingStats() and the assignments to its fields
sample_stats(batch_schools, total_institutions) ==
    [ZeroStats EXCEPT
       !.total_processed = Len(batch_schools),
       !.successful = RowsWith(batch_schools, "status", "SUCCESS"),
       !.errors = RowsWith(batch_schools, "status", "ERROR"),
       !.pages_processed = 1,
       !.total_institutions = total_institutions]

\* the sample stats are built, verify_file_integrity is called on the open
\* Sink (a warning is logged when it is false), and the stats are returned;
\* finally: close()
SampleReturn ==
    /\ call.fn = "process_sample" /\ call.st = "stats"
    /\ call' = [call EXCEPT
                  !.st = "returned",
                  !.ret = sample_stats(call.batch_schools,
                                       stats.total_institutions)]
    /\ log' = IF verify_file_integrity(storage) THEN log
              ELSE log \cup {[action |-> "file_integrity_warning", page_num |-> 0]}
    /\ storage' = close(storage).s
    /\ UNCHANGED <<statVars, sink, pc, batches, bi, contexts, ptask, semaphore,
                   queue, all_schools, exc, history>>

\* an exception inside the try: force_save(), raise; finally: close()
SampleFails ==
    /\ call.fn = "process_sample" /\ call.st \in {"discover", "page"}
    /\ call' = [call EXCEPT !.st = "raised"]
    /\ storage' = close(force_save(storage).s).s
    /\ UNCHANGED <<statVars, sink, runVars>>

(***************************************************************************)
(* SIGINT during the run (main.py): signal_handler runs between two steps  *)
(* of the event loop, sys.exit(0) raises SystemExit out of the loop, and   *)
(* asyncio.run cancels the tasks that are left before the process exits.   *)
(***************************************************************************)
Interrupted == pc \in {"exiting", "cancelling", "exited"}

Interrupt ==
    /\ ~Interrupted
    /\ storage' = signal_handler(storage).s
    /\ log' = log \cup {[action |-> "graceful_shutdown", page_num |-> 0]}
    /\ pc' = "exiting"
    /\ UNCHANGED <<call, statVars, sink, batches, bi, contexts, ptask,
                   semaphore, queue, all_schools, exc, history>>

\* a task that gets CancelledError: its unsettled fetches end, "async with"
\* gives their permits back
cancel(task) ==
    IF task.st = "done" THEN task
    ELSE [st |-> "cancelled", links |-> task.links,
          fetch |-> [k \in DOMAIN task.fetch |->
                       IF Settled(task.fetch[k]) THEN task.fetch[k]
                       ELSE "cancelled"]]

\* navigate_to_page_robust awaits query_selector inside a bare "except:":
\* a page task cancelled there goes on
Swallowing == {p \in DOMAIN ptask : ptask[p].st = "created" /\ p > 1}

CancelAllTasks ==
    /\ pc = "exiting"
    /\ \E kept \in SUBSET Swallowing :
         ptask' = [p \in DOMAIN ptask |->
                     IF p \in kept THEN ptask[p] ELSE cancel(ptask[p])]
    /\ semaphore' = MaxConcurrent
    /\ pc' = "cancelling"
    /\ UNCHANGED <<call, statVars, sinkVars, batches, bi, contexts, queue,
                   all_schools, exc, history, log>>

\* every task left has ended; the async generator holding the contexts is
\* finalized by the loop's shutdown, which may be closed before the contexts
\* are; the process exits
Exit ==
    /\ pc = "cancelling"
    /\ \A p \in DOMAIN ptask : ptask[p].st \in {"done", "cancelled"}
    /\ ptask' = <<>>
    /\ contexts' \in {0, contexts}
    /\ pc' = "exited"
    /\ UNCHANGED <<call, statVars, sinkVars, batches, bi, semaphore, queue,
                   all_schools, exc, history, log>>

StartPage == \E p \in DOMAIN ptask : PageStart(p)
FailPage == \E p \in DOMAIN ptask : PageFails(p)
FailPageNav == \E p \in DOMAIN ptask : PageNavFails(p)
SettlePage == \E p \in DOMAIN ptask : PageSettle(p)
StartFetch == \E p \in DOMAIN ptask : \E k \in 1..Len(ptask[p].fetch) : FetchStart(p, k)
FinishFetch == \E p \in DOMAIN ptask : \E k \in 1..Len(ptask[p].fetch) : FetchFinish(p, k)
FailFetchOpen == \E p \in DOMAIN ptask : \E k \in 1..Len(ptask[p].fetch) : FetchOpenFails(p, k)

(***************************************************************************)
(* navigate_to_page_robust (browser.py): the sequential navigation loop.   *)
(* call.attempt counts the loop iterations completed, call.current_page    *)
(* is the counter of verified advances, call.check the outcome of the      *)
(* last wait_for_selector("#tabelabusca") made after a click.              *)
(***************************************************************************)
max_attempts_more(target_page) == target_page + 6

max_attempts(target_page) == target_page + 5

NavCall(target_page) ==
    [fn |-> "navigate", target_page |-> target_page, current_page |-> 1,
     attempt |-> 0, st |-> "called", ret |-> FALSE, why |-> "none",
     check |-> "none"]

NavReturn(c, ret, why) == [c EXCEPT !.st = "returned", !.ret = ret, !.why = why]

\* wait_for_selector returned: current_page += 1, and the iteration is over
verified(c) ==
    [c EXCEPT !.current_page = @ + 1, !.attempt = @ + 1, !.check = "ok"]

unverified_counts(c) ==
    [c EXCEPT !.current_page = @ + 1, !.attempt = @ + 1, !.check = "failed"]

\* wait_for_selector raised (a timeout included): only the iteration is over
unverified(c) == [c EXCEPT !.attempt = @ + 1, !.check = "failed"]

\* target_page == 1: set_results_per_page (which catches its own failures)
NavFirstPage ==
    /\ call.fn = "navigate" /\ call.st = "called"
    /\ call.target_page = 1
    /\ call' = NavReturn(call, TRUE, "first_page")
    /\ UNCHANGED <<statVars, sinkVars, runVars>>

\* wait_for_timeout(2000), then current_page = 1 and the loop is entered
NavEnterLoop ==
    /\ call.fn = "navigate" /\ call.st = "called"
    /\ call.target_page > 1
    /\ call' = [call EXCEPT !.st = "loop"]
    /\ UNCHANGED <<statVars, sinkVars, runVars>>

\* the page raises outside the inner handlers: the outer except returns False
NavRaises ==
    /\ call.fn = "navigate" /\ call.st = "called"
    /\ call.target_page > 1
    /\ call' = NavReturn(call, FALSE, "exception")
    /\ UNCHANGED <<statVars, sinkVars, runVars>>

NavIterating ==
    /\ call.fn = "navigate" /\ call.st = "loop"
    /\ call.attempt < max_attempts(call.target_page)

\* top of an iteration: current_page >= target_page
NavReached ==
    /\ NavIterating
    /\ call.current_page >= call.target_page
    /\ call' = NavReturn(call, TRUE, "reached")
    /\ UNCHANGED <<statVars, sinkVars, runVars>>

\* no selector finds an enabled advance control: break
NavNoButton ==
    /\ NavIterating
    /\ call.current_page < call.target_page
    /\ call' = NavReturn(call, FALSE, "no_next_button")
    /\ UNCHANGED <<statVars, sinkVars, runVars>>

\* next_button.click() raises: break
NavClickFails ==
    /\ NavIterating
    /\ call.current_page < call.target_page
    /\ call' = NavReturn(call, FALSE, "click_error")
    /\ UNCHANGED <<statVars, sinkVars, runVars>>

\* the click is made and wait_for_selector("#tabelabusca") succeeds
NavAdvance ==
    /\ NavIterating
    /\ call.current_page < call.target_page
    /\ call' = verified(call)
    /\ UNCHANGED <<statVars, sinkVars, runVars>>

\* the click is made and the verification raises: the counter stays
NavUnverified ==
    /\ NavIterating
    /\ call.current_page < call.target_page
    /\ call' = unverified(call)
    /\ UNCHANGED <<statVars, sinkVars, runVars>>

\* range(max_attempts) is used up: the code after the loop returns False
NavExhausted ==
    /\ call.fn = "navigate" /\ call.st = "loop"
    /\ call.attempt >= max_attempts(call.target_page)
    /\ call' = NavReturn(call, FALSE, "exhausted")
    /\ UNCHANGED <<statVars, sinkVars, runVars>>

(***************************************************************************)
(* CSVStorage under concurrent callers (storage.py): _write_lock is taken  *)
(* by write_school_data alone, around to_dict and writerow; the flush of   *)
(* write_single_school, close and force_save do not take it.               *)
(* call.write_lock is the caller holding the lock (0: free), call.at the   *)
(* position of each caller inside write_single_school.                     *)
(***************************************************************************)
Callers == 1..NumCallers

LockCall ==
    [fn |-> "write_single_school", write_lock |-> 0,
     at |-> [c \in Callers |-> "idle"]]

RowsHeld(s) == Len(s.buffer) + Len(s.file)

\* "with self._write_lock:" entered
LockAcquire(c) ==
    /\ call.fn = "write_single_school"
    /\ call.at[c] = "idle"
    /\ call.write_lock = 0
    /\ RowsHeld(storage) <= MaxRecords
    /\ call' = [call EXCEPT !.write_lock = c, !.at[c] = "locked"]
    /\ UNCHANGED <<statVars, sinkVars, runVars>>

\* to_dict and writerow; leaving the with block releases the lock
LockedWrite(c) ==
    /\ call.fn = "write_single_school"
    /\ call.at[c] = "locked"
    /\ \E school \in SinkSchools :
         LET r == write_school_data(storage, to_dict(school))
         IN  /\ storage' = r.s
             /\ call' = [call EXCEPT !.write_lock = 0,
                                     !.at[c] = IF r.exc = "none" THEN "written"
                                               ELSE "idle"]
    /\ UNCHANGED <<statVars, sink, runVars>>

\* "if self._csv_file: self._csv_file.flush()", after the lock was released
UnlockedFlush(c) ==
    /\ call.fn = "write_single_school"
    /\ call.at[c] = "written"
    /\ storage' = flush_if_file(storage).s
    /\ call' = [call EXCEPT !.at[c] = "idle"]
    /\ UNCHANGED <<statVars, sink, runVars>>

\* close() called meanwhile (the signal handler does): no lock is taken
UnlockedClose ==
    /\ call.fn = "write_single_school"
    /\ storage.csv_file = "open"
    /\ storage' = close(storage).s
    /\ UNCHANGED <<call, statVars, sink, runVars>>

AcquireLock == \E c \in Callers : LockAcquire(c)
WriteLocked == \E c \in Callers : LockedWrite(c)
FlushUnlocked == \E c \in Callers : UnlockedFlush(c)

(***************************************************************************)
(* extract_school_links (browser.py): the hrefs of the table's anchors.    *)
(* An href is modelled by its form and the detail page it names: "rooted"  *)
(* starts with "/", "absolute" carries scheme and host, "relative" is      *)
(* relative to the document; "other" does not contain "DetalhesEscola",    *)
(* "none" is an anchor without href, "raises" one whose get_attribute      *)
(* raises.                                                                 *)
(***************************************************************************)
DetailForms == {"rooted", "absolute", "relative"}

Anchors ==
    {[form |-> f, path |-> u] : f \in DetailForms, u \in Refs}
    \cup {[form |-> f, path |-> "a"] : f \in {"other", "none", "raises"}}

AnchorLists == UNION {[1..n -> Anchors] : n \in 0..MaxAnchors}

\* if href.startswith("/"): href = f"https://transparencia...{href}"
normalize(href) ==
    IF href.form = "rooted" THEN [href EXCEPT !.form = "absolute"] ELSE href

\* the loop over school_links: hrefs that pass the filter, normalized
RECURSIVE collect_links(_)
collect_links(school_links) ==
    IF school_links = <<>> THEN <<>>
    ELSE (IF Head(school_links).form \in DetailForms
          THEN <<normalize(Head(school_links))>> ELSE <<>>)
         \o collect_links(Tail(school_links))

\* "Remove duplicates while preserving order"
RECURSIVE unique_from(_, _)
unique_from(links, seen) ==
    IF links = <<>> THEN <<>>
    ELSE IF Head(links) \in seen THEN unique_from(Tail(links), seen)
         ELSE <<Head(links)>> \o unique_from(Tail(links), seen \cup {Head(links)})

extract_school_links(school_links) == unique_from(collect_links(school_links), {})

CallExtractLinks ==
    /\ call.fn = "extract_school_links" /\ ~call.done
    /\ call' = [call EXCEPT !.done = TRUE,
                            !.ret = extract_school_links(call.school_links)]
    /\ UNCHANGED <<statVars, sinkVars, runVars>>

(***************************************************************************)
(* Runs of one EDSPScraper, one after the other (scraper.py).  A run is    *)
(* taken as a whole: a completed process_all_pages over a catalog of one   *)
(* page, or a completed process_sample.  all_schools and the stats of the  *)
(* BatchProcessor (totals) are created in __init__ and live across runs.   *)
(***************************************************************************)
RunsCall ==
    [fn |-> "runs", runs |-> 0, kind |-> "none", records |-> <<>>,
     ret |-> ZeroStats]

PageOutcomes ==
    UNION {{page_results(links, fetch) : fetch \in [1..Len(links) -> {"ok", "fail"}]} :
           links \in LinkLists}

\* get_summary: total_schools and stats
get_summary(schools, batch_processor_stats) ==
    [total_schools |-> Len(schools), stats |-> batch_processor_stats]

\* reset_processing_state, initialize_csv, one batch of one page, merge_stats,
\* return self.batch_processor.stats; finally: close()
RunAllPages ==
    /\ call.fn = "runs" /\ call.runs < MaxRuns
    /\ \E raw \in PageOutcomes :
         LET r == sample_schools(raw, [ZeroStats EXCEPT !.total_pages = 1])
             batch_stats == [r.stats EXCEPT !.pages_processed = @ + 1]
         IN  /\ stats' = batch_stats
             /\ totals' = merge_stats(totals, batch_stats)
             /\ all_schools' = all_schools \o r.schools
             /\ storage' = close(write_schools(initialize_csv(storage), r.schools)).s
             /\ call' = [call EXCEPT !.runs = @ + 1, !.kind = "process_all_pages",
                                     !.records = r.schools,
                                     !.ret = merge_stats(totals, batch_stats)]
    /\ UNCHANGED <<sink, pc, batches, bi, contexts, ptask, semaphore, queue,
                   exc, history, log>>

\* reset_processing_state, initialize_csv, page 1, return sample_stats;
\* finally: close()
RunSample ==
    /\ call.fn = "runs" /\ call.runs < MaxRuns
    /\ \E raw \in PageOutcomes :
         LET r == sample_schools(raw, [ZeroStats EXCEPT !.total_pages = 1])
         IN  /\ stats' = r.stats
             /\ all_schools' = all_schools \o r.schools
             /\ storage' = close(write_schools(initialize_csv(storage), r.schools)).s
             /\ call' = [call EXCEPT !.runs = @ + 1, !.kind = "process_sample",
                                     !.records = r.schools,
                                     !.ret = sample_stats(r.schools, 0)]
    /\ UNCHANGED <<totals, sink, pc, batches, bi, contexts, ptask, semaphore,
                   queue, exc, history, log>>

(***************************************************************************)
(* The specifications.                                                     *)
(***************************************************************************)
RunIdle ==
    /\ batches = <<>> /\ bi = 0 /\ contexts = 0 /\ ptask = <<>>
    /\ semaphore = MaxConcurrent /\ queue = <<>> /\ all_schools = <<>>
    /\ exc = "none" /\ history = {} /\ log = {}

Init ==
    /\ call = NoCall
    /\ stats = ZeroStats /\ totals = ZeroStats
    /\ storage = NewStorage /\ sink = IdleSink
    /\ pc = "start" /\ RunIdle

Next ==
    \/ Begin \/ Discover \/ DiscoverFails
    \/ OpenContexts \/ OpenContextsFails
    \/ StartPage \/ FailPage \/ FailPageNav \/ SettlePage \/ StartFetch \/ FinishFetch
    \/ FailFetchOpen
    \/ GatherDone \/ ProcessResult \/ ProcessResultFails
    \/ ClosePages \/ ReturnBatch \/ Pause \/ Finish \/ HandleFailure
    \/ Interrupt \/ CancelAllTasks \/ Exit

Spec == Init /\ [][Next]_vars

InitBatches ==
    /\ call \in {[fn |-> "create_batches", total_pages |-> t, batch_size |-> b,
                  done |-> FALSE, ret |-> <<>>] :
                 t \in 1..MaxTotalPages, b \in 1..MaxBatchSize}
    /\ stats = ZeroStats /\ totals = ZeroStats
    /\ storage = NewStorage /\ sink = IdleSink
    /\ pc = "idle" /\ RunIdle

NextBatches == CallCreateBatches

SpecBatches == InitBatches /\ [][NextBatches]_vars

InitStats ==
    /\ call = NoCall
    /\ stats = ZeroStats /\ totals = ZeroStats
    /\ storage = NewStorage /\ sink = IdleSink
    /\ pc = "idle" /\ RunIdle

NextStats ==
    \/ StatsUpdateSuccess \/ StatsUpdateError \/ StatsUpdateSkipped
    \/ StatsMerge \/ StatsReset

SpecStats == InitStats /\ [][NextStats]_vars

InitSink ==
    /\ call = NoCall
    /\ stats = ZeroStats /\ totals = ZeroStats
    /\ storage = NewStorage /\ sink = IdleSink
    /\ pc = "idle" /\ RunIdle

NextSink ==
    \/ SinkInitialize \/ SinkWriteBegin \/ SinkWriteEnd
    \/ SinkClose \/ SinkForceSave \/ SinkInterrupt \/ SinkKill \/ SinkPowerLoss

SpecSink == InitSink /\ [][NextSink]_vars

InitVerify ==
    /\ call \in {[fn |-> "verify_file_integrity", artifact |-> a,
                  done |-> FALSE, ret |-> FALSE] : a \in Artifacts}
    /\ stats = ZeroStats /\ totals = ZeroStats
    /\ storage = NewStorage /\ sink = IdleSink
    /\ pc = "idle" /\ RunIdle

NextVerify == CallVerify

SpecVerify == InitVerify /\ [][NextVerify]_vars

InitText ==
    /\ call \in {[fn |-> "from_text", text |-> t, done |-> FALSE, ret |-> <<>>] :
                 t \in Texts}
    /\ stats = ZeroStats /\ totals = ZeroStats
    /\ storage = NewStorage /\ sink = IdleSink
    /\ pc = "idle" /\ RunIdle

NextText == CallFromText

SpecText == InitText /\ [][NextText]_vars

InitMerge ==
    /\ call \in {[fn |-> "merge_stats", a |-> a, b |-> b, c |-> c,
                  done |-> FALSE, ret |-> {}, left |-> ZeroStats,
                  right |-> ZeroStats, ab |-> ZeroStats, ba |-> ZeroStats] :
                 a \in BatchStats, b \in BatchStats, c \in BatchStats}
    /\ stats = ZeroStats /\ totals = ZeroStats
    /\ storage = NewStorage /\ sink = IdleSink
    /\ pc = "idle" /\ RunIdle

NextMerge == CallMergeStats

SpecMerge == InitMerge /\ [][NextMerge]_vars

InitSample ==
    /\ call \in {SampleCall(a, b) : a \in 1..MaxPages, b \in 1..MaxPages}
    /\ stats = ZeroStats /\ totals = ZeroStats
    /\ storage = NewStorage /\ sink = IdleSink
    /\ pc = "idle" /\ RunIdle

NextSample ==
    \/ SampleBegin \/ SampleDiscover \/ SamplePage \/ SampleReturn
    \/ SampleFails

SpecSample == InitSample /\ [][NextSample]_vars

InitRetry ==
    /\ call \in {FetchCall(u) : u \in Refs}
    /\ stats = ZeroStats /\ totals = ZeroStats
    /\ storage = NewStorage /\ sink = IdleSink
    /\ pc = "idle" /\ RunIdle

NextRetry ==
    \/ AttemptReturns \/ AttemptRaises \/ AttemptCancelled \/ AttemptAgain

SpecRetry == InitRetry /\ [][NextRetry]_vars

InitNav ==
    /\ call \in {NavCall(t) : t \in 1..MaxTarget}
    /\ stats = ZeroStats /\ totals = ZeroStats
    /\ storage = NewStorage /\ sink = IdleSink
    /\ pc = "idle" /\ RunIdle

NextNav ==
    \/ NavFirstPage \/ NavEnterLoop \/ NavRaises
    \/ NavReached \/ NavNoButton \/ NavClickFails
    \/ NavAdvance \/ NavUnverified \/ NavExhausted

SpecNav == InitNav /\ [][NextNav]_vars

\* every await of the loop is bounded by a timeout (wait_for_timeout,
\* wait_for_selector(timeout=10000), the driver's default on query_selector
\* and click), so a started call keeps taking steps
SpecNavFair == SpecNav /\ WF_vars(NextNav)

InitLock ==
    /\ call = LockCall
    /\ stats = ZeroStats /\ totals = ZeroStats
    /\ storage = initialize_csv(NewStorage) /\ sink = IdleSink
    /\ pc = "idle" /\ RunIdle

NextLock == AcquireLock \/ WriteLocked \/ FlushUnlocked \/ UnlockedClose

SpecLock == InitLock /\ [][NextLock]_vars

InitLinks ==
    /\ call \in {[fn |-> "extract_school_links", school_links |-> l,
                  done |-> FALSE, ret |-> <<>>] : l \in AnchorLists}
    /\ stats = ZeroStats /\ totals = ZeroStats
    /\ storage = NewStorage /\ sink = IdleSink
    /\ pc = "idle" /\ RunIdle

NextLinks == CallExtractLinks

SpecLinks == InitLinks /\ [][NextLinks]_vars

InitRuns ==
    /\ call = RunsCall
    /\ stats = ZeroStats /\ totals = ZeroStats
    /\ storage = NewStorage /\ sink = IdleSink
    /\ pc = "idle" /\ RunIdle

NextRuns == RunAllPages \/ RunSample

SpecRuns == InitRuns /\ [][NextRuns]_vars

(***************************************************************************)
(* Properties.                                                             *)
(***************************************************************************)
FailedFetches == {h \in history : h.result = "fail"}

\* the fetch tasks of the batch in progress
FetchTasks == UNION {{<<p, k>> : k \in 1..Len(ptask[p].fetch)} : p \in DOMAIN ptask}

\* records fetched and not yet handed to the Sink
Unappended ==
    Len(queue)
    + Cardinality({t \in FetchTasks : ptask[t[1]].fetch[t[2]] = "ok"})

\* C1: for every total_pages >= 1 and batch_size >= 1 the batches of
\* create_batches have non-empty page ranges that are contiguous (each starts
\* right after the one before ends), pairwise disjoint, and whose union is
\* exactly 1..total_pages.
BatchesCoverPages ==
    (call.fn = "create_batches" /\ call.done) =>
        LET b == call.ret
            n == Len(b)
        IN  /\ n >= 1
            /\ \A i \in 1..n : b[i].start_page <= b[i].end_page
            /\ \A i \in 1..(n - 1) : b[i + 1].start_page = b[i].end_page + 1
            /\ \A i, j \in 1..n : i # j => PagesOf(b[i]) \cap PagesOf(b[j]) = {}
            /\ UNION {PagesOf(b[i]) : i \in 1..n} = 1..call.total_pages

BatchesShortLast ==
    /\ call.fn = "create_batches" /\ call.done
    /\ Len(call.ret) >= 3
    /\ call.total_pages % call.batch_size # 0

\* C2: at the end of a run every detail reference that was attempted has
\* exactly one row in the artifact: not zero, not two.
EveryReferenceOneRecord ==
    pc = "done" =>
        \A h \in history : RowsWith(DataRows(storage), "detail_url", h.ref) = 1

\* C3: a run over a single page that yields n references of which k exhaust
\* their retries ends with n rows, n-k SUCCESS and k ERROR, and with returned
\* stats total_processed = n, successful = n-k, errors = k.
PageYieldsErrorRecords ==
    (pc = "done" /\ stats.total_pages = 1) =>
        LET n == Cardinality(history)
            k == Cardinality(FailedFetches)
            rows == DataRows(storage)
        IN  /\ Len(rows) = n
            /\ RowsWith(rows, "status", "SUCCESS") = n - k
            /\ RowsWith(rows, "status", "ERROR") = k
            /\ totals.total_processed = n
            /\ totals.successful = n - k
            /\ totals.errors = k

AppendForcedToDisk ==
    (/\ storage.crashed = "no"
     /\ sink.wpc = "idle"
     /\ sink.lastOp = "write_single_school"
     /\ sink.lastExc = "none") =>
        (storage.buffer = <<>> /\ storage.disk = storage.file)

\* C6: in every state of a run at most one fetched record is not yet
\* appended to the Sink.
AtMostOneUnappended == Unappended <= 1

\* C7: a second close() on a Sink that has a file raises nothing.
SecondCloseQuiet ==
    (sink.lastOp = "close" /\ sink.closes >= 2) => sink.lastExc = "none"

\* C8: force_save() raises in no Sink state, not initialized, open or closed.
ForceSaveNeverRaises ==
    sink.lastOp = "force_save" => sink.lastExc = "none"

Balanced(s) == s.total_processed = s.successful + s.errors + s.skipped

StatsBalanced == Balanced(stats) /\ Balanced(totals)

MergedAllOutcomes ==
    /\ totals.successful > 0 /\ totals.errors > 0 /\ totals.skipped > 0
    /\ stats.total_processed > 0
    /\ totals.total_processed > stats.total_processed

\* C11: once k batches have been executed and merged, each outcome field of
\* the run totals is the count of the records those batches produced, so
\* total_processed is the number of records persisted.
TotalsCountRecords ==
    pc \in {"pause", "finish", "done"} =>
        LET rows == DataRows(storage)
        IN  /\ totals.total_processed = Len(rows)
            /\ totals.successful = RowsWith(rows, "status", "SUCCESS")
            /\ totals.errors = RowsWith(rows, "status", "ERROR")
            /\ totals.skipped = RowsWith(rows, "status", "SKIPPED")
\* C12: the detail fetches between acquiring and releasing the gate, over all
\* pages and sessions of the batch, are never more than max_concurrent, and
\* each of them holds one permit.
InProgress ==
    Cardinality({t \in FetchTasks : ptask[t[1]].fetch[t[2]] = "running"})

FetchesWithinGate ==
    /\ InProgress <= MaxConcurrent
    /\ InProgress = MaxConcurrent - semaphore

GateFullFetchWaiting ==
    /\ InProgress = MaxConcurrent
    /\ \E t \in FetchTasks : ptask[t[1]].fetch[t[2]] = "waiting"
    /\ Cardinality({p \in DOMAIN ptask : ptask[p].st = "fetching"}) > 1

\* C13: page tasks and fetches exist only for the current batch; when a batch
\* starts, every record fetched by the earlier batches is a row of the
\* artifact; the batch index advances by one, and only through the pause,
\* which is taken after every batch but the last.
OkBefore(page) ==
    Cardinality({h \in history : h.result = "ok" /\ h.page < page})

BatchesInTurn ==
    /\ ptask # <<>> =>
          /\ bi \in 1..Len(batches)
          /\ DOMAIN ptask \subseteq PagesOf(batches[bi])
    /\ pc \in {"batch", "gather"} =>
          /\ queue = <<>>
          /\ \A h \in history : h.page <= batches[bi].end_page
          /\ OkBefore(batches[bi].start_page) = Len(DataRows(storage))
    /\ pc = "pause" => bi < Len(batches)
    /\ pc = "finish" => bi = Len(batches)

BatchesSequential ==
    /\ []BatchesInTurn
    /\ [][/\ (bi' # bi /\ bi # 0) => (pc = "pause" /\ bi' = bi + 1)
          /\ (pc' = "batch" /\ pc # "batch" /\ bi' > 1) => pc = "pause"]_vars

SecondBatchAfterFirstAppended ==
    /\ pc = "gather" /\ bi = 2
    /\ InProgress > 0
    /\ Len(DataRows(storage)) > 0

\* C14: during a batch the pages in progress are never more than the sessions
\* opened for it, and no session has two pages in progress.
PagesInProgress == {p \in DOMAIN ptask : ptask[p].st = "fetching"}

PagesWithinSessions ==
    pc = "gather" =>
        /\ Cardinality(PagesInProgress) <= contexts
        /\ \A p, q \in PagesInProgress :
              context_of(batches[bi], p, contexts) = context_of(batches[bi], q, contexts)
                  => p = q

\* C15: for a target above 1 the navigator returns true exactly when the
\* verified current page has reached the target, and false when the advance
\* control is missing, a click fails or the attempts are used up.
NavReturned ==
    call.fn = "navigate" /\ call.st = "returned" /\ call.target_page > 1

NavigateTrueIffReached ==
    NavReturned =>
        /\ call.ret <=> call.current_page >= call.target_page
        /\ call.why \in {"no_next_button", "click_error", "exhausted"} => ~call.ret

\* C16: a page whose navigation failed has no fetch and so no record; logging
\* the failure changes neither the control state nor the propagating
\* exception; and once the batch's results are written every successful fetch
\* of the other pages is a row of the artifact.
NavFailedPages == {l.page_num : l \in {m \in log : m.action = "navigation_failed"}}

NavFailureSkipsPage ==
    /\ [](/\ \A h \in history : h.page \notin NavFailedPages
          /\ \A p \in NavFailedPages \cap DOMAIN ptask :
                ptask[p].st = "done" /\ ptask[p].fetch = <<>>
          /\ pc \in {"closing", "pause", "finish", "done"} =>
                Len(DataRows(storage)) =
                    Cardinality({h \in history : h.result = "ok"}))
    /\ [][NavFailedPages' # NavFailedPages =>
             (Gathering /\ pc' = pc /\ exc' = exc)]_vars

SiblingPersistedAfterNavFailure ==
    /\ pc = "done"
    /\ 2 \in NavFailedPages
    /\ \E h \in history : h.page = 1 /\ h.result = "ok"
    /\ Len(DataRows(storage)) >= 1

\* C17: after an interrupt no page task starts its fetches and no fetch is
\* admitted; the sessions are released only once the Sink is flushed and
\* closed; and when the process has exited no session is left open.
SinkClosed == storage.csv_file \in {"none", "closed"} /\ storage.buffer = <<>>

InterruptInOrder ==
    /\ [][Interrupted =>
             /\ InProgress' <= InProgress
             /\ PagesInProgress' \subseteq PagesInProgress]_vars
    /\ [][(Interrupted' /\ contexts' < contexts) => SinkClosed]_vars
    /\ [](pc = "exited" => (SinkClosed /\ contexts = 0))

\* C18: when the process has exited on an interrupt, a Sink that had been
\* initialized is closed, and the interrupt kept every row written before
\* it: the artifact, on stable storage, is the rows of the file followed by
\* the rows still buffered.
ExitedOnInterrupt == storage.crashed = "exit" /\ storage.filename

InterruptClosesSink ==
    /\ [](ExitedOnInterrupt =>
             /\ storage.csv_file = "closed"
             /\ storage.buffer = <<>>
             /\ storage.disk = storage.file
             /\ get_partial_data_count(storage) >= sink.appended)
    /\ [][(storage'.crashed = "exit" /\ storage.crashed = "no") =>
             storage'.file = storage.file \o storage.buffer]_vars

InterruptedDuringAppend ==
    /\ ExitedOnInterrupt
    /\ sink.wpc = "written"
    /\ sink.appended >= 1
    /\ sink.lastExc = "none"
    /\ get_partial_data_count(storage) = sink.appended + 1

\* C19: verify_file_integrity is false exactly for an artifact that is
\* missing, has no content but blanks, or cannot be read as rows under a
\* header (undecodable, or no header line); it is true for the header alone
\* and for the header followed by any number of rows.
VerifyReturned == call.fn = "verify_file_integrity" /\ call.done

HeaderAndRows(a) ==
    /\ a.exists /\ a.decodable
    /\ a.lines # <<>>
    /\ Head(a.lines) = Cells(HeaderRow)
    /\ \A i \in 2..Len(a.lines) : a.lines[i] = <<"a", "SUCCESS", "">>

IntegrityTruthTable ==
    VerifyReturned =>
        LET a == call.artifact
            missing == ~a.exists
            empty == a.exists /\ a.decodable
                     /\ \A i \in 1..Len(a.lines) : a.lines[i] \in BlankLines
            unparseable == a.exists /\ (~a.decodable
                                         \/ (a.lines # <<>> /\ Head(a.lines) = <<>>))
        IN  /\ ~call.ret <=> (missing \/ empty \/ unparseable)
            /\ HeaderAndRows(a) => call.ret

HeaderOnlyVerified ==
    /\ VerifyReturned
    /\ call.artifact.lines = <<Cells(HeaderRow)>>
    /\ call.ret

\* C20: for every non-empty text that is not one of the two known values
\* (in any letter case, blanks around it aside) from_text returns the text
\* itself, character for character, and never UNKNOWN.
OtherText(text) ==
    /\ ~text.none /\ text.chars # <<>>
    /\ upper(strip(text.chars)) \notin {PEI, EE}

OtherTextVerbatim ==
    (call.fn = "from_text" /\ call.done /\ OtherText(call.text)) =>
        /\ call.ret = call.text.chars
        /\ call.ret # UNKNOWN

\* C21: from_text gives PEI and EE for these two texts in any letter case,
\* and UNKNOWN for a missing text, the empty text and a text that is empty
\* once trimmed.
KnownAndEmptyTexts ==
    (call.fn = "from_text" /\ call.done) =>
        LET text == call.text
        IN  /\ (~text.none /\ upper(text.chars) = PEI) => call.ret = PEI
            /\ (~text.none /\ upper(text.chars) = EE) => call.ret = EE
            /\ (text.none \/ strip(text.chars) = <<>>) => call.ret = UNKNOWN

\* C22: merging three batches' stats into zeroed totals gives the same totals
\* in whatever order they are merged, each merged field being the sum of the
\* three; and as an operation on two stats merge_stats is associative and
\* commutative in every merged field.
MergeOrderFree ==
    (call.fn = "merge_stats" /\ call.done) =>
        /\ Cardinality(call.ret) = 1
        /\ \A t \in call.ret : \A f \in MergedFields :
              t[f] = call.a[f] + call.b[f] + call.c[f]
        /\ \A f \in MergedFields :
              /\ call.left[f] = call.right[f]
              /\ call.ab[f] = call.ba[f]

MergedThreeDistinct ==
    /\ call.fn = "merge_stats" /\ call.done
    /\ Cardinality({call.a, call.b, call.c}) = 3
    /\ call.a.successful > 0 /\ call.b.errors > 0 /\ call.c.skipped > 0
    /\ call.a.pages_processed # call.b.pages_processed

\* C23: a returned process_sample(start_page, end_page) has processed exactly
\* the pages start_page..end_page, clamped to the total discovered, and the
\* stats it returns count that many pages.
SampleRange ==
    call.start_page .. Min(call.end_page, stats.total_pages)

SampleProcessesRange ==
    (call.fn = "process_sample" /\ call.st = "returned") =>
        /\ call.pages = SampleRange
        /\ call.ret.pages_processed = Cardinality(SampleRange)

\* C24: the stats a finished run returns (the batch processor's totals) carry
\* the total pages and the total institutions discovered for the run.
ReturnedStatsCarryTotals ==
    pc = "done" =>
        /\ totals.total_pages = stats.total_pages
        /\ totals.total_institutions = stats.total_institutions

\* C25: a detail fetch makes at most 3 attempts; every attempt but the last
\* one made raised; an attempt that returns ends the fetch with its result;
\* the third failed attempt ends it with the failure; and nothing is
\* attempted after the fetch has ended.
Raised(c, i) == c.trace[i] \in Retryable

\* what the attempts made did, as the outcomes given to retry_from
OutcomesOf(c) ==
    [i \in 1..RetryAttempts |->
        IF i <= Len(c.trace) /\ c.trace[i] = "ok" THEN "ok" ELSE "raise"]

AtMostThreeAttempts ==
    /\ [](call.fn = "extract_school_details" =>
             /\ Len(call.trace) <= RetryAttempts
             /\ call.attempt_number <= RetryAttempts
             /\ \A i \in 1..(Len(call.trace) - 1) : Raised(call, i)
             /\ call.st = "attempt" =>
                   /\ call.attempt_number = Len(call.trace) + 1
                   /\ \A i \in 1..Len(call.trace) : Raised(call, i)
             /\ call.st = "returned" =>
                   /\ call.trace[Len(call.trace)] = "ok"
                   /\ call.ret = RawData(call.detail_url)
                   /\ extract_school_details(OutcomesOf(call)) =
                          [result |-> "ok", attempts |-> Len(call.trace)]
             /\ (call.st = "raised" /\ call.exc = "RetryError") =>
                   /\ Len(call.trace) = RetryAttempts
                   /\ \A i \in 1..RetryAttempts : Raised(call, i)
                   /\ extract_school_details(OutcomesOf(call)) =
                          [result |-> "fail", attempts |-> RetryAttempts])
    /\ [][call.st \in {"returned", "raised"} => call' = call]_vars

ThirdAttemptReturns ==
    /\ call.fn = "extract_school_details"
    /\ call.st = "returned"
    /\ Len(call.trace) = RetryAttempts

\* C26: once an exception has propagated out of a batch, no batch is started
\* and no task is created; when the failure reaches the caller the Sink has
\* been flushed, synced and closed, keeping what was in the file and in the
\* buffer; and the records of the batches completed before are rows of the
\* artifact.
BatchFailed == exc # "none" /\ bi >= 1

NavLoop == call.fn = "navigate" /\ call.st = "loop"

CounterCountsVerifiedAdvances ==
    /\ [](call.fn = "navigate" =>
             /\ call.current_page >= 1
             /\ call.current_page - 1 <= call.attempt)
    /\ [][NavLoop =>
             /\ call'.current_page \in {call.current_page, call.current_page + 1}
             /\ call'.current_page = call.current_page + 1 =>
                    /\ call'.check = "ok"
                    /\ call'.attempt = call.attempt + 1
                    /\ call'.st = "loop"
             /\ (call'.st = "loop" /\ call'.check = "failed") =>
                    /\ call'.current_page = call.current_page
                    /\ call'.attempt = call.attempt + 1
             /\ call'.st = "returned" =>
                    /\ call'.current_page = call.current_page
                    /\ call'.attempt = call.attempt]_vars

FailedCheckThenAdvance ==
    /\ NavLoop
    /\ call.check = "ok"
    /\ call.current_page = 2
    /\ call.attempt = 3

\* C28: the navigator never uses more than target + 5 loop attempts and
\* always returns; when it returns without a missing control, a failed click
\* or an exception, it returns true exactly when at most 5 re-render checks
\* failed; with 6 or more failed checks it returns false.
FailedChecks == call.attempt - (call.current_page - 1)

NavigationBounded ==
    /\ [](call.fn = "navigate" => call.attempt <= call.target_page + 5)
    /\ []((NavReturned /\ call.why \in {"reached", "exhausted"}) =>
              (call.ret <=> FailedChecks <= 5))
    /\ []((NavReturned /\ FailedChecks >= 6) => ~call.ret)
    /\ <>(call.fn = "navigate" /\ call.st = "returned")

FiveFailedChecksTolerated ==
    /\ NavReturned
    /\ call.ret
    /\ FailedChecks = 5
    /\ call.target_page >= 3

\* C29: a page task is done only when each of its fetches has settled; the
\* step in which a fetch fails changes no sibling fetch and not the page, and
\* outside an interrupt no fetch is ever cancelled; a fetch that succeeded
\* stays so, and when the batch's gather returns the results hold one record
\* for every fetch that succeeded.
FetchState(t) == ptask[t[1]].fetch[t[2]]

SucceededFetches == {t \in FetchTasks : FetchState(t) = "ok"}

PageWaitsForAllFetches ==
    /\ [](\A t \in FetchTasks :
             /\ ptask[t[1]].st = "done" => Settled(FetchState(t))
             /\ pc = "gather" => FetchState(t) # "cancelled")
    /\ [][(ptask' # ptask /\ ptask' # <<>>) =>
             \A t \in FetchTasks :
                /\ FetchState(t) = "ok" => ptask'[t[1]].fetch[t[2]] = "ok"
                /\ (FetchState(t) # "fail" /\ ptask'[t[1]].fetch[t[2]] = "fail") =>
                       /\ ptask'[t[1]].st = ptask[t[1]].st
                       /\ \A k \in 1..Len(ptask[t[1]].fetch) :
                              k # t[2] =>
                                 ptask'[t[1]].fetch[k] = ptask[t[1]].fetch[k]]_vars
    /\ [][(pc = "gather" /\ pc' = "results") =>
             /\ Len(queue') = Cardinality(SucceededFetches)
             /\ \A t \in SucceededFetches :
                    \E i \in 1..Len(queue') :
                       queue'[i] = RawData(ptask[t[1]].links[t[2]])]_vars

SiblingOfFailedFetchInResults ==
    /\ pc = "results" /\ bi = 1 /\ all_schools = <<>>
    /\ queue = <<RawData("b")>>
    /\ \E h \in FailedFetches :
          /\ h.ref = "a"
          /\ [page |-> h.page, ref |-> "b", result |-> "ok"] \in history

\* C30: a caller whose row is written and not yet flushed still holds the
\* lock, and until its flush no step of anyone else writes to, flushes or
\* closes the file.
WriteAndFlushInOneSection ==
    /\ [](call.fn = "write_single_school" =>
             \A c \in Callers : call.at[c] = "written" => call.write_lock = c)
    /\ [][call.fn = "write_single_school" =>
             \A c \in Callers :
                (call.at[c] = "written" /\ call'.at[c] = "written") =>
                   storage' = storage]_vars

\* C31: the links returned for a page are absolute references, hold no
\* reference twice, are exactly the references of the page's detail anchors
\* made absolute, and stand in the order of their first occurrence.
Absolute(href) == [form |-> "absolute", path |-> href.path]

FirstAt(links, href) ==
    CHOOSE i \in 1..Len(links) :
        /\ links[i] = href
        /\ \A j \in 1..(i - 1) : links[j] # href

DetailRefs(school_links) ==
    [i \in 1..Len(collect_links(school_links)) |->
        Absolute(collect_links(school_links)[i])]

LinksDistinctAbsoluteInOrder ==
    (call.fn = "extract_school_links" /\ call.done) =>
        LET refs == DetailRefs(call.school_links)
            ret == call.ret
        IN  /\ \A i \in 1..Len(ret) : ret[i].form = "absolute"
            /\ \A i, j \in 1..Len(ret) : ret[i] = ret[j] => i = j
            /\ {ret[i] : i \in 1..Len(ret)} = {refs[i] : i \in 1..Len(refs)}
            /\ \A i, j \in 1..Len(ret) :
                   i < j => FirstAt(refs, ret[i]) < FirstAt(refs, ret[j])

\* C32: after an append to the Sink has failed, no record is processed or
\* appended, no batch starts and the run never completes; the one cleanup
\* step flushes what the file and the buffer held to disk and closes the
\* Sink, after which the failure is with the caller and the Sink is not
\* touched again by the run.
AppendFailed == exc = "OSError"

SampleInitialized == call.fn = "process_sample" /\ call.st # "called"

HeaderOnDiskOnceInitialized ==
    SampleInitialized =>
        /\ verify_file_integrity(storage)
        /\ [action |-> "file_integrity_warning", page_num |-> 0] \notin log

\* C33: create_batches returns ceil(total_pages / batch_size) batches in
\* ascending page order; every batch but the last holds batch_size pages, the
\* last between 1 and batch_size; and the name of the k-th batch is the
\* number k written with three digits, zero-padded.
RECURSIVE DigitsValue(_)
DigitsValue(d) ==
    IF d = <<>> THEN 0 ELSE 10 * DigitsValue(SubSeq(d, 1, Len(d) - 1)) + d[Len(d)]

BatchSizeOf(b) == b.end_page - b.start_page + 1

BatchesCountedSizedNamed ==
    (call.fn = "create_batches" /\ call.done) =>
        LET b == call.ret
            n == Len(b)
        IN  /\ n = (call.total_pages + call.batch_size - 1) \div call.batch_size
            /\ b[1].start_page = 1
            /\ \A k \in 1..(n - 1) :
                   /\ b[k].start_page < b[k + 1].start_page
                   /\ BatchSizeOf(b[k]) = call.batch_size
            /\ BatchSizeOf(b[n]) \in 1..call.batch_size
            /\ \A k \in 1..n :
                   /\ Len(b[k].batch_name) = 3
                   /\ \A i \in 1..3 : b[k].batch_name[i] \in 0..9
                   /\ DigitsValue(b[k].batch_name) = k

ElevenBatchesOfOnePage ==
    /\ call.fn = "create_batches" /\ call.done
    /\ Len(call.ret) = 11
    /\ call.ret[11].batch_name = <<0, 1, 1>>

\* C35: every step gives back as many permits as fetches end in it, however
\* they end, and takes one per fetch started, so with no fetch in progress
\* (in particular between batches) the gate holds max_concurrent permits.
PermitsNeverLeak ==
    /\ [](InProgress = 0 => semaphore = MaxConcurrent)
    /\ [](pc \in {"results", "closing", "pause", "batch", "done", "raised"} =>
             semaphore = MaxConcurrent)
    /\ [][IF ptask' = ptask THEN semaphore' = semaphore
          ELSE semaphore' - semaphore = InProgress - InProgress']_vars

GateFullAgainAfterFailures ==
    /\ bi = 2 /\ pc = "gather"
    /\ InProgress = MaxConcurrent
    /\ \E h \in FailedFetches : h.page <= batches[1].end_page

\* C36: whenever process_batch is not running (before a batch, in the pause,
\* at the end of the run, and once a failure has left it), no rendering
\* session is open, and sessions are only opened when none is open.
SessionsClosedWhenBatchEnds ==
    /\ [](pc \in {"batch", "pause", "finish", "done", "except", "raised"} =>
             contexts = 0)
    /\ [][contexts' > contexts => contexts = 0]_vars

\* C37: the pages_processed of the run totals never exceeds the discovered
\* total_pages, and equals it when the run has completed.
PagesProcessedWithinTotal ==
    /\ totals.pages_processed <= stats.total_pages
    /\ pc = "done" => totals.pages_processed = stats.total_pages

\* C38: the stats returned by a run, and total_schools of get_summary()
\* after it, count the records of that run alone.
RunsStartFromZero ==
    (call.fn = "runs" /\ call.runs >= 1) =>
        /\ call.ret.total_processed = Len(call.records)
        /\ call.ret.successful = RowsWith(call.records, "status", "SUCCESS")
        /\ call.ret.errors = RowsWith(call.records, "status", "ERROR")
        /\ call.ret.pages_processed = 1
        /\ get_summary(all_schools, totals).total_schools = Len(call.records)

\* C39: a write_single_school call is accepted only on an open Sink; called
\* on a Sink that is not initialized or is closed, it raises (RuntimeError,
\* ValueError) and leaves buffer, file and disk as they were.
WriteOnlyWhileOpen ==
    /\ [][(sink.wpc = "idle" /\ sink'.wpc = "written") =>
             storage.csv_file = "open"]_vars
    /\ [][(sink'.calls = sink.calls + 1 /\ sink'.wpc = "idle"
              /\ sink'.lastOp = "write_single_school") =>
             /\ storage.csv_file # "open"
             /\ sink'.lastExc = IF storage.csv_file = "none" THEN "RuntimeError"
                                ELSE "ValueError"
             /\ storage' = storage]_vars

WriteAfterCloseRefused ==
    /\ sink.lastOp = "write_single_school"
    /\ sink.lastExc = "ValueError"
    /\ storage.csv_file = "closed"
    /\ sink.appended = 2
    /\ Len(storage.disk) = 3

====
